---- MODULE Spec2Model ----
(***************************************************************************)
(* Images-to-PDF screen (expo / react-native).  Two variants of the same   *)
(* HomeScreen component exist in the repository:                           *)
(*   "file"  : app/(tabs)/index.tsx  - printToFileAsync + share, margin    *)
(*             text field, clamp effect on maxMarginMm                     *)
(*   "print" : the draggable-list screen - printAsync, drag reorder        *)
(* Lengths are kept in tenths of a millimetre (215.9mm = 2159); the margin *)
(* is a whole number of millimetres.  JS strings that the code inspects    *)
(* (uris, MIME types, text-field input) are sequences of one-character     *)
(* strings.  An optional value (x | null | undefined) is <<>> or <<x>>.    *)
(***************************************************************************)
EXTENDS Integers, Sequences, FiniteSets

VARIABLES
    variant,      \* which screen is mounted: "file" or "print"
    paperSize,    \* useState<PaperSize>
    orientation,  \* useState<Orientation>
    marginMm,     \* useState(10): marginMm (file) / paddingMm (print)
    images,       \* useState<SelectedImage[]>
    isConverting, \* useState(false): isConverting (file) / isGenerating (print)
    pdfUri,       \* useState<string | null>, file variant
    isSharing,    \* useState(false), file variant
    picks,        \* pickImages() calls in flight
    exports,      \* convertToPdf() / generatePdf() calls in flight
    shares,       \* sharePdf() calls in flight
    lastOp,       \* the handler or continuation that ran in the last step
    alert,        \* title of the Alert.alert shown by the last step, or "none"
    fault,        \* the operation whose promise rejected in the last step, or "none"
    lastPicked,   \* the picker result handed to the last merge
    prevImages,   \* images before the last merge
    repeated      \* the last merge re-merged the picker result of the merge before it

vars == <<variant, paperSize, orientation, marginMm, images, isConverting,
          pdfUri, isSharing, picks, exports, shares, lastOp, alert, fault,
          lastPicked, prevImages, repeated>>

geometryVars == <<paperSize, orientation, marginMm>>
storeVars    == <<images, lastPicked, prevImages, repeated>>
exportVars   == <<isConverting, pdfUri, exports>>
shareVars    == <<isSharing, shares>>

\* what a geometry / store / export / share handler leaves alone
geometryFrame == <<variant, storeVars, exportVars, shareVars, picks>>
storeFrame    == <<variant, geometryVars, exportVars, shareVars>>
exportFrame   == <<variant, geometryVars, storeVars, shareVars, picks>>
shareFrame    == <<variant, geometryVars, storeVars, exportVars, picks>>

----------------------------------------------------------------------------
(* Generic helpers *)

Min(a, b) == IF a <= b THEN a ELSE b
Max(a, b) == IF a >= b THEN a ELSE b

Range(s) == {s[i] : i \in DOMAIN s}

NULL == <<>>
Some(x) == <<x>>
IsNull(o) == o = <<>>

\* a ?? b
Coalesce(o, d) == IF IsNull(o) THEN d ELSE o[1]

\* what the last step did, shown and threw (Alert titles are written without
\* their accents: "Sin imagenes" is the alert titled "Sin im\'agenes")
Ghost(op, shown, thrown) ==
    /\ lastOp' = op
    /\ alert' = shown
    /\ fault' = thrown

----------------------------------------------------------------------------
(* Geometry *)

PaperSizes == {"A4", "Letter", "Legal"}
Orientations == {"portrait", "landscape"}

PAPER_SIZES(p) ==
    CASE p = "A4"     -> [widthMm |-> 2100, heightMm |-> 2970]
      [] p = "Letter" -> [widthMm |-> 2159, heightMm |-> 2794]
      [] p = "Legal"  -> [widthMm |-> 2159, heightMm |-> 3556]

clamp(value, min, max) == Min(max, Max(min, value))

getPageDimensionsMm(p, o) ==
    LET base == PAPER_SIZES(p)
    IN  IF o = "portrait"
        THEN [widthMm |-> base.widthMm, heightMm |-> base.heightMm]
        ELSE [widthMm |-> base.heightMm, heightMm |-> base.widthMm]

widthMm == getPageDimensionsMm(paperSize, orientation).widthMm
heightMm == getPageDimensionsMm(paperSize, orientation).heightMm

\* Math.floor(Math.max(0, Math.min(w, h) / 2 - 1)), w and h in tenths of mm,
\* the result in whole mm
maxMarginOf(w, h) == Max(0, Min(w, h) - 20) \div 20

maxMarginMm == maxMarginOf(widthMm, heightMm)

\* useEffect(() => setMarginMm(c => clamp(c, 0, maxMarginMm)), [maxMarginMm]):
\* present in the file variant only; runs with the render that follows a
\* change of paper size or orientation.
ClampEffect(v, m, p, o) ==
    IF v = "file"
    THEN LET d == getPageDimensionsMm(p, o)
         IN  clamp(m, 0, maxMarginOf(d.widthMm, d.heightMm))
    ELSE m

Digits == <<"0", "1", "2", "3", "4", "5", "6", "7", "8", "9">>
IsDigit(c) == c \in Range(Digits)
DigitValue(c) == (CHOOSE i \in DOMAIN Digits : Digits[i] = c) - 1

RECURSIVE DigitPrefix(_, _)
\* value of the longest decimal prefix of s, continuing from acc
DigitPrefix(s, acc) ==
    IF s = <<>> \/ ~IsDigit(Head(s)) THEN acc
    ELSE DigitPrefix(Tail(s), acc * 10 + DigitValue(Head(s)))

RECURSIVE TrimStart(_)
TrimStart(s) == IF s # <<>> /\ Head(s) = " " THEN TrimStart(Tail(s)) ELSE s

\* Number.parseInt(s, 10): NULL stands for NaN
parseInt(s) ==
    LET t == TrimStart(s)
        signed == t # <<>> /\ Head(t) \in {"-", "+"}
        body == IF signed THEN Tail(t) ELSE t
    IN  IF body = <<>> \/ ~IsDigit(Head(body)) THEN NULL
        ELSE Some((IF signed /\ Head(t) = "-" THEN -1 ELSE 1) * DigitPrefix(body, 0))

\* Number.parseInt(text || "0", 10) || 0
marginFromText(text) ==
    LET n == parseInt(IF text = <<>> THEN <<"0">> ELSE text)
    IN  IF IsNull(n) \/ n[1] = 0 THEN 0 ELSE n[1]

\* what the user may type in the margin field
MarginTexts ==
    { <<>>, <<"7">>, <<"0", "9">>, <<"1", "0", "5">>, <<"1", "0", "7">>,
      <<"9", "9", "9">>, <<"-", "3">>, <<"1", "2", "a">>, <<"x">>, <<" ", "4">> }

setPaperSize(option) ==
    /\ paperSize' = option
    /\ marginMm' = ClampEffect(variant, marginMm, option, orientation)
    /\ UNCHANGED <<orientation, geometryFrame>>
    /\ Ghost("setPaperSize", "none", "none")

setOrientation(option) ==
    /\ orientation' = option
    /\ marginMm' = ClampEffect(variant, marginMm, paperSize, option)
    /\ UNCHANGED <<paperSize, geometryFrame>>
    /\ Ghost("setOrientation", "none", "none")

marginMinus ==
    /\ marginMm' = clamp(marginMm - 2, 0, maxMarginMm)
    /\ UNCHANGED <<paperSize, orientation, geometryFrame>>
    /\ Ghost("marginMinus", "none", "none")

marginPlus ==
    /\ marginMm' = clamp(marginMm + 2, 0, maxMarginMm)
    /\ UNCHANGED <<paperSize, orientation, geometryFrame>>
    /\ Ghost("marginPlus", "none", "none")

onChangeText(text) ==
    /\ variant = "file"
    /\ marginMm' = clamp(marginFromText(text), 0, maxMarginMm)
    /\ UNCHANGED <<paperSize, orientation, geometryFrame>>
    /\ Ghost("onChangeText", "none", "none")

SelectPaperSize == \E option \in PaperSizes : setPaperSize(option)
SelectOrientation == \E option \in Orientations : setOrientation(option)
TypeMargin == \E text \in MarginTexts : onChangeText(text)

----------------------------------------------------------------------------
(* Strings *)

Str_image_slash == <<"i", "m", "a", "g", "e", "/">>
Str_png  == <<"p", "n", "g">>
Str_webp == <<"w", "e", "b", "p">>
Str_gif  == <<"g", "i", "f">>
Str_heic == <<"h", "e", "i", "c">>
Str_heif == <<"h", "e", "i", "f">>
Str_jpeg == <<"j", "p", "e", "g">>

UpperCase == <<"A", "B", "C", "D", "E", "F", "G", "H", "I", "J", "K", "L", "M",
               "N", "O", "P", "Q", "R", "S", "T", "U", "V", "W", "X", "Y", "Z">>
LowerCase == <<"a", "b", "c", "d", "e", "f", "g", "h", "i", "j", "k", "l", "m",
               "n", "o", "p", "q", "r", "s", "t", "u", "v", "w", "x", "y", "z">>

toLowerCase(s) ==
    [i \in DOMAIN s |->
        IF s[i] \in Range(UpperCase)
        THEN LowerCase[CHOOSE k \in DOMAIN UpperCase : UpperCase[k] = s[i]]
        ELSE s[i]]

startsWith(s, prefix) ==
    /\ Len(s) >= Len(prefix)
    /\ SubSeq(s, 1, Len(prefix)) = prefix

\* s.split(c)[0]
BeforeFirst(s, c) ==
    IF c \in Range(s)
    THEN SubSeq(s, 1, (CHOOSE i \in DOMAIN s :
                          s[i] = c /\ \A j \in 1..(i - 1) : s[j] # c) - 1)
    ELSE s

\* s.split(c).pop()
AfterLast(s, c) ==
    IF c \in Range(s)
    THEN SubSeq(s, (CHOOSE i \in DOMAIN s :
                       s[i] = c /\ \A j \in (i + 1)..Len(s) : s[j] # c) + 1, Len(s))
    ELSE s

RECURSIVE ReplaceAll(_, _, _)
\* s.replace(/c/g, by)
ReplaceAll(s, c, by) ==
    IF s = <<>> THEN <<>>
    ELSE (IF Head(s) = c THEN by ELSE <<Head(s)>>) \o ReplaceAll(Tail(s), c, by)

escapeAttribute(value) ==
    LET a == ReplaceAll(value, "&", <<"&", "a", "m", "p", ";">>)
        b == ReplaceAll(a, "\"", <<"&", "q", "u", "o", "t", ";">>)
        c == ReplaceAll(b, "'", <<"&", "#", "3", "9", ";">>)
        d == ReplaceAll(c, "<", <<"&", "l", "t", ";">>)
    IN  ReplaceAll(d, ">", <<"&", "g", "t", ";">>)

\* the extension taken from the whole uri, query string included
inferFromWholeUri(image) ==
    IF ~IsNull(image.mimeType) /\ startsWith(image.mimeType[1], Str_image_slash)
    THEN image.mimeType[1]
    ELSE LET extension == toLowerCase(AfterLast(image.uri, "."))
         IN  CASE extension = Str_png  -> Str_image_slash \o Str_png
               [] extension = Str_webp -> Str_image_slash \o Str_webp
               [] extension = Str_gif  -> Str_image_slash \o Str_gif
               [] extension \in {Str_heic, Str_heif} -> Str_image_slash \o Str_heic
               [] OTHER -> Str_image_slash \o Str_jpeg

\* the extension compared as written, without toLowerCase()
inferCaseSensitive(image) ==
    IF ~IsNull(image.mimeType) /\ startsWith(image.mimeType[1], Str_image_slash)
    THEN image.mimeType[1]
    ELSE LET extension == AfterLast(BeforeFirst(image.uri, "?"), ".")
         IN  CASE extension = Str_png  -> Str_image_slash \o Str_png
               [] extension = Str_webp -> Str_image_slash \o Str_webp
               [] extension = Str_gif  -> Str_image_slash \o Str_gif
               [] extension \in {Str_heic, Str_heif} -> Str_image_slash \o Str_heic
               [] OTHER -> Str_image_slash \o Str_jpeg

inferImageMimeType(image) ==
    IF ~IsNull(image.mimeType) /\ startsWith(image.mimeType[1], Str_image_slash)
    THEN image.mimeType[1]
    ELSE LET extension == toLowerCase(AfterLast(BeforeFirst(image.uri, "?"), "."))
         IN  CASE extension = Str_png  -> Str_image_slash \o Str_png
               [] extension = Str_webp -> Str_image_slash \o Str_webp
               [] extension = Str_gif  -> Str_image_slash \o Str_gif
               [] extension \in {Str_heic, Str_heif} -> Str_image_slash \o Str_heic
               [] OTHER -> Str_image_slash \o Str_jpeg

----------------------------------------------------------------------------
(* Picker assets and the ordered image sequence *)

MaxPicks == 2    \* pickImages() calls in flight at once
MaxPicked == 2   \* assets in one picker result
MaxImages == 2   \* length of the image sequence

Uri_a == <<"a", ".", "P", "N", "G">>
Uri_b == <<"b", "?", "x", "=", "1", ".", "w", "e", "b", "p">>
Uri_c == <<"c", "&", "1">>

Uris == {Uri_a, Uri_b, Uri_c}

\* ImagePickerAsset values the picker may return: the same uri may come back
\* with other metadata
Assets ==
    { [uri |-> Uri_a, width |-> Some(800), height |-> Some(600), mimeType |-> NULL],
      [uri |-> Uri_a, width |-> NULL, height |-> NULL,
       mimeType |-> Some(Str_image_slash \o Str_heic)],
      [uri |-> Uri_b, width |-> Some(640), height |-> Some(480),
       mimeType |-> Some(<<"t", "e", "x", "t", "/", "x">>)] }

SeqsUpTo(S, n) == UNION {[1..k -> S] : k \in 0..n}

\* result.assets of an uncancelled picker result (possibly empty)
PickerResults == SeqsUpTo(Assets, MaxPicked)

UrisOf(seq) == {seq[i].uri : i \in DOMAIN seq}

NoDuplicateUris(seq) ==
    \A i, j \in DOMAIN seq : i # j => seq[i].uri # seq[j].uri

\* .map((asset) => ({uri, width: asset.width ?? 0, ...}))
toSelectedImage(asset) ==
    [uri |-> asset.uri,
     width |-> Coalesce(asset.width, 0),
     height |-> Coalesce(asset.height, 0),
     mimeType |-> asset.mimeType]

\* the merge without the existingUris filter
mergeUnfiltered(previous, assets) ==
    previous \o [i \in DOMAIN assets |-> toSelectedImage(assets[i])]

\* the merge with the additions put in front
mergePrepended(previous, assets) ==
    LET existingUris == UrisOf(previous)
        IsNew(asset) == asset.uri \notin existingUris
        kept == SelectSeq(assets, IsNew)
    IN  [i \in DOMAIN kept |-> toSelectedImage(kept[i])] \o previous

\* the setImages((previous) => ...) updater of pickImages
mergeNewImages(previous, assets) ==
    LET existingUris == UrisOf(previous)
        IsNew(asset) == asset.uri \notin existingUris
        kept == SelectSeq(assets, IsNew)
        additions == [i \in DOMAIN kept |-> toSelectedImage(kept[i])]
    IN  previous \o additions

\* previous.filter((item) => item.uri !== uri)
filterOut(previous, uri) ==
    LET Keep(item) == item.uri # uri
    IN  SelectSeq(previous, Keep)

Reorderings(seq) ==
    { [i \in DOMAIN seq |-> seq[p[i]]] :
        p \in {q \in [DOMAIN seq -> DOMAIN seq] : Range(q) = DOMAIN seq} }

\* pickImages() calls hold no data of their own while they wait, so the calls
\* in flight are counted by the await they are suspended at
NoPicks == [permission |-> 0, picker |-> 0]

Suspend(at) == [picks EXCEPT ![at] = @ + 1]
Resume(at) == [picks EXCEPT ![at] = @ - 1]

\* a step that is no merge forgets the last merge
NoMerge ==
    /\ lastPicked' = <<>>
    /\ prevImages' = <<>>
    /\ repeated' = FALSE

\* pickImages(): up to the first await
pickImages ==
    /\ picks.permission + picks.picker < MaxPicks
    /\ picks' = Suspend("permission")
    /\ UNCHANGED <<storeVars, storeFrame>>
    /\ Ghost("pickImages", "none", "none")

\* requestMediaLibraryPermissionsAsync() resolved with granted: the picker opens
PermissionGranted ==
    /\ picks.permission > 0
    /\ picks' = [Resume("permission") EXCEPT !.picker = @ + 1]
    /\ UNCHANGED <<storeVars, storeFrame>>
    /\ Ghost("launchImageLibrary", "none", "none")

\* a denial that opened the picker all the same
PermissionDeniedLaunching ==
    /\ picks.permission > 0
    /\ picks' = [Resume("permission") EXCEPT !.picker = @ + 1]
    /\ UNCHANGED <<storeVars, storeFrame>>
    /\ Ghost("permissionDenied", "Permiso requerido", "none")

\* permission.granted is false: Alert and return
PermissionDenied ==
    /\ picks.permission > 0
    /\ picks' = Resume("permission")
    /\ UNCHANGED <<storeVars, storeFrame>>
    /\ Ghost("permissionDenied", "Permiso requerido", "none")

\* requestMediaLibraryPermissionsAsync() rejected: nothing catches it
PermissionRejected ==
    /\ picks.permission > 0
    /\ picks' = Resume("permission")
    /\ UNCHANGED <<storeVars, storeFrame>>
    /\ Ghost("permissionRejected", "none", "pickImages")

\* result.canceled
PickerCanceled ==
    /\ picks.picker > 0
    /\ picks' = Resume("picker")
    /\ UNCHANGED <<storeVars, storeFrame>>
    /\ Ghost("pickerCanceled", "none", "none")

\* launchImageLibraryAsync() rejected: nothing catches it
PickerRejected ==
    /\ picks.picker > 0
    /\ picks' = Resume("picker")
    /\ UNCHANGED <<storeVars, storeFrame>>
    /\ Ghost("pickerRejected", "none", "pickImages")

\* the picker answered with assets
PickerDone(assets) ==
    /\ picks.picker > 0
    /\ picks' = Resume("picker")
    /\ IF assets = <<>>
       THEN /\ UNCHANGED storeVars
            /\ Ghost("pickerEmpty", "none", "none")
       ELSE /\ Len(mergeNewImages(images, assets)) <= MaxImages
            /\ images' = mergeNewImages(images, assets)
            /\ lastPicked' = assets
            /\ prevImages' = images
            /\ repeated' = (lastOp = "merge" /\ lastPicked = assets)
            /\ Ghost("merge", "none", "none")
    /\ UNCHANGED storeFrame

\* a remove that drops the PDF handle along with the last image
removeImageClearing(uri) ==
    /\ uri \in UrisOf(images)
    /\ images' = filterOut(images, uri)
    /\ pdfUri' = IF filterOut(images, uri) = <<>> THEN "null" ELSE pdfUri
    /\ NoMerge
    /\ UNCHANGED <<picks, variant, geometryVars, isConverting, exports, shareVars>>
    /\ Ghost("removeImage", "none", "none")

\* the row's remove button
removeImage(uri) ==
    /\ uri \in UrisOf(images)
    /\ images' = filterOut(images, uri)
    /\ NoMerge
    /\ UNCHANGED <<picks, storeFrame>>
    /\ Ghost("removeImage", "none", "none")

\* onDragEnd={({ data }) => setImages(data)}, print variant
onDragEnd(data) ==
    /\ variant = "print"
    /\ images' = data
    /\ NoMerge
    /\ UNCHANGED <<picks, storeFrame>>
    /\ Ghost("onDragEnd", "none", "none")

AnswerAssets == \E assets \in PickerResults : PickerDone(assets)
PressRemove == \E uri \in Uris : removeImage(uri)
DragEnd == \E data \in Reorderings(images) : onDragEnd(data)

----------------------------------------------------------------------------
(* Export: convertToPdf (file variant) / generatePdf (print variant) *)

MaxExports == 2  \* slots for export calls in flight
MaxPages == 3    \* images on the screen when an export is studied

ExportSlots == 1..MaxExports

Str_data == <<"d", "a", "t", "a", ":">>
Str_base64 == <<";", "b", "a", "s", "e", "6", "4", ",">>

\* what new File(uri).base64() resolves to, when it resolves
FileBase64(uri) ==
    CASE uri = Uri_a -> <<"Q", "U", "E", "=">>
      [] uri = Uri_b -> <<"Q", "k", "I", "=">>
      [] OTHER       -> <<"Q", "0", "M", "=">>

\* `data:${mimeType};base64,${base64}`
dataUri(image, base64) ==
    Str_data \o inferImageMimeType(image) \o Str_base64 \o base64

\* the geometry a render closes over
Geometry == [paperSize |-> paperSize, orientation |-> orientation, marginMm |-> marginMm]

\* a markup that takes the margin off one side only
buildPdfHtmlSingleMargin(v, imageSources, g) ==
    LET d == getPageDimensionsMm(g.paperSize, g.orientation)
        contentWidthMm == Max(d.widthMm - g.marginMm * 10 * 1, 10)
        contentHeightMm == Max(d.heightMm - g.marginMm * 10 * 1, 10)
    IN  [ pageSize |-> <<d.widthMm, d.heightMm>>,
          pageMargin |-> 0,
          sheet |-> IF v = "file"
                    THEN [boxSizing |-> "border-box",
                          width |-> d.widthMm, height |-> d.heightMm,
                          padding |-> g.marginMm * 5]
                    ELSE [boxSizing |-> "content-box",
                          width |-> d.widthMm, height |-> d.heightMm,
                          padding |-> 0],
          content |-> IF v = "file" THEN NULL
                      ELSE Some([width |-> contentWidthMm, height |-> contentHeightMm]),
          img |-> IF v = "file"
                  THEN [width |-> "100%", height |-> "100%",
                        maxWidth |-> "none", maxHeight |-> "none",
                        objectFit |-> "contain"]
                  ELSE [width |-> "auto", height |-> "auto",
                        maxWidth |-> "100%", maxHeight |-> "100%",
                        objectFit |-> "fill"],
          landscapeImg |-> IF v = "file" THEN NULL
                           ELSE Some([maxWidth |-> contentHeightMm,
                                      maxHeight |-> contentWidthMm,
                                      rotate |-> 90,
                                      transformOrigin |-> "center center"]),
          pages |-> [i \in DOMAIN imageSources |->
                        [class |-> IF v = "file" THEN {"sheet"}
                                   ELSE {"sheet", g.orientation},
                         src |-> escapeAttribute(imageSources[i]), alt |-> i]] ]

\* the markup, by its style rules and its page sections; lengths in tenths of a
\* millimetre.  The print variant emits the .sheet.landscape rule always and
\* gives each section the orientation as a class; the file variant has neither
\* a .content element nor a landscape rule.
buildPdfHtml(v, imageSources, g) ==
    LET d == getPageDimensionsMm(g.paperSize, g.orientation)
        contentWidthMm == Max(d.widthMm - g.marginMm * 10 * 2, 10)
        contentHeightMm == Max(d.heightMm - g.marginMm * 10 * 2, 10)
    IN  [ pageSize |-> <<d.widthMm, d.heightMm>>,
          pageMargin |-> 0,
          sheet |-> IF v = "file"
                    THEN [boxSizing |-> "border-box",
                          width |-> d.widthMm, height |-> d.heightMm,
                          padding |-> g.marginMm * 10]
                    ELSE [boxSizing |-> "content-box",
                          width |-> d.widthMm, height |-> d.heightMm,
                          padding |-> 0],
          content |-> IF v = "file" THEN NULL
                      ELSE Some([width |-> contentWidthMm, height |-> contentHeightMm]),
          img |-> IF v = "file"
                  THEN [width |-> "100%", height |-> "100%",
                        maxWidth |-> "none", maxHeight |-> "none",
                        objectFit |-> "contain"]
                  ELSE [width |-> "auto", height |-> "auto",
                        maxWidth |-> "100%", maxHeight |-> "100%",
                        objectFit |-> "fill"],
          landscapeImg |-> IF v = "file" THEN NULL
                           ELSE Some([maxWidth |-> contentHeightMm,
                                      maxHeight |-> contentWidthMm,
                                      rotate |-> 90,
                                      transformOrigin |-> "center center"]),
          pages |-> [i \in DOMAIN imageSources |->
                        [class |-> IF v = "file" THEN {"sheet"}
                                   ELSE {"sheet", g.orientation},
                         src |-> escapeAttribute(imageSources[i]), alt |-> i]] ]

IdleExport ==
    [pc |-> "idle", images |-> <<>>, geometry |-> NULL, sources |-> <<>>,
     done |-> <<>>, html |-> NULL, startPdfUri |-> "null"]

InFlight(f) == exports[f].pc \in {"reading", "printing"}

FreeExport(f) ==
    /\ ~InFlight(f)
    /\ \A g \in 1..(f - 1) : InFlight(g)

\* the read results in the order the reads finished
sourcesByCompletion(flow) ==
    [k \in DOMAIN flow.done |-> flow.sources[flow.done[k]][1]]

\* what await Promise.all(images.map(...)) yields: one entry per image, in the
\* order of images
imageSources(flow) ==
    [i \in DOMAIN flow.images |-> flow.sources[i][1]]

\* a markup built from the page geometry on the screen when the reads finish
afterReadsOfCurrentScreen(v, flow) ==
    IF Len(flow.done) = Len(flow.images)
    THEN [flow EXCEPT !.pc = "printing",
                      !.html = Some(buildPdfHtml(v, imageSources(flow), Geometry))]
    ELSE flow

\* once every read has resolved: build the markup and call the print service
afterReads(v, flow) ==
    IF Len(flow.done) = Len(flow.images)
    THEN [flow EXCEPT !.pc = "printing",
                      !.html = Some(buildPdfHtml(v, imageSources(flow), flow.geometry[1]))]
    ELSE flow

\* a finished call keeps its outcome and the artifact handle it started from
Finished(flow, outcome) ==
    [IdleExport EXCEPT !.pc = outcome, !.startPdfUri = flow.startPdfUri]

\* a guard that lets an empty array through
isMissing(imgs) == FALSE

\* !images.length
isEmpty(imgs) == Len(imgs) = 0

\* convertToPdf() / generatePdf(): up to the first await.  The callback closes
\* over the images and the geometry of the render it was created in; every
\* change of the image sequence reachable here changes its length or is made
\* in the print variant, whose dependency list names images, so the closure
\* holds the current sequence.
convertToPdf(f) ==
    /\ IF isEmpty(images)
       THEN /\ UNCHANGED exportVars
            /\ Ghost("convertToPdf", "Sin imagenes", "none")
       ELSE /\ isConverting' = TRUE
            /\ exports' = [exports EXCEPT ![f] =
                  afterReads(variant,
                      [pc |-> "reading", images |-> images, geometry |-> Some(Geometry),
                       sources |-> [i \in DOMAIN images |-> NULL], done |-> <<>>,
                       html |-> NULL, startPdfUri |-> pdfUri])]
            /\ UNCHANGED pdfUri
            /\ Ghost("convertToPdf", "none", "none")
    /\ UNCHANGED exportFrame

\* the button that ignores only the empty sequence
exportDisabledWhenEmpty == Len(images) = 0

\* disabled={!images.length || isConverting}
exportDisabled == Len(images) = 0 \/ isConverting

\* a press on the export button
PressExport ==
    IF exportDisabled
    THEN /\ UNCHANGED <<exportVars, exportFrame>>
         /\ Ghost("exportIgnored", "none", "none")
    ELSE \E f \in ExportSlots : FreeExport(f) /\ convertToPdf(f)

\* the handler called without the button in front of it, one call at a time
CallExport == FreeExport(1) /\ convertToPdf(1)

\* new File(image.uri).base64() of image i resolved
ReadResolved(f, i) ==
    /\ exports[f].pc = "reading"
    /\ i \in DOMAIN exports[f].images
    /\ IsNull(exports[f].sources[i])
    /\ LET flow == exports[f]
           image == flow.images[i]
       IN  exports' = [exports EXCEPT ![f] =
              afterReads(variant,
                  [flow EXCEPT !.sources[i] = Some(dataUri(image, FileBase64(image.uri))),
                               !.done = Append(@, i)])]
    /\ UNCHANGED <<isConverting, pdfUri, exportFrame>>
    /\ Ghost("readResolved", "none", "none")

\* a rejected read handled by a catch with no finally after it
ReadRejectedLeavingFlag(f, i) ==
    /\ exports[f].pc = "reading"
    /\ i \in DOMAIN exports[f].images
    /\ IsNull(exports[f].sources[i])
    /\ exports' = [exports EXCEPT ![f] = Finished(@, "failed")]
    /\ UNCHANGED <<isConverting, pdfUri, exportFrame>>
    /\ Ghost("readRejected", "Error", "none")

\* a read rejected: Promise.all rejects, catch and finally run
ReadRejected(f, i) ==
    /\ exports[f].pc = "reading"
    /\ i \in DOMAIN exports[f].images
    /\ IsNull(exports[f].sources[i])
    /\ exports' = [exports EXCEPT ![f] = Finished(@, "failed")]
    /\ isConverting' = FALSE
    /\ UNCHANGED <<pdfUri, exportFrame>>
    /\ Ghost("readRejected", "Error", "none")

\* file names the print service may hand back
PdfUris == {"pdf1", "pdf2"}

\* printToFileAsync resolved with file.uri (file) / printAsync resolved (print)
PrintResolved(f, uri) ==
    /\ exports[f].pc = "printing"
    /\ exports' = [exports EXCEPT ![f] = Finished(@, "succeeded")]
    /\ isConverting' = FALSE
    /\ IF variant = "file"
       THEN /\ pdfUri' = uri
            /\ Ghost("printResolved", "PDF creado", "none")
       ELSE /\ UNCHANGED pdfUri
            /\ Ghost("printResolved", "none", "none")
    /\ UNCHANGED exportFrame

\* a rejection handler that publishes the file name all the same
PrintRejectedPublishing(f) ==
    /\ exports[f].pc = "printing"
    /\ exports' = [exports EXCEPT ![f] = Finished(@, "failed")]
    /\ isConverting' = FALSE
    /\ pdfUri' = "pdf1"
    /\ UNCHANGED exportFrame
    /\ Ghost("printRejected", "Error", "none")

\* the print service rejected: catch and finally run
PrintRejected(f) ==
    /\ exports[f].pc = "printing"
    /\ exports' = [exports EXCEPT ![f] = Finished(@, "failed")]
    /\ isConverting' = FALSE
    /\ UNCHANGED <<pdfUri, exportFrame>>
    /\ Ghost("printRejected", "Error", "none")

ReadAnswer == \E f \in ExportSlots : \E i \in 1..MaxPages : ReadResolved(f, i)
ReadFailure == \E f \in ExportSlots : \E i \in 1..MaxPages : ReadRejected(f, i)
PrintAnswer ==
    \E f \in ExportSlots :
        \E uri \in IF variant = "file" THEN PdfUris ELSE {"null"} : PrintResolved(f, uri)
PrintFailure == \E f \in ExportSlots : PrintRejected(f)

----------------------------------------------------------------------------
(* Share: sharePdf, file variant *)

MaxShares == 2   \* slots for share calls in flight

ShareSlots == 1..MaxShares

IdleShare == [pc |-> "idle", uri |-> "null"]

FreeShare(f) ==
    /\ shares[f].pc = "idle"
    /\ \A g \in 1..(f - 1) : shares[g].pc # "idle"

\* sharePdf(): up to the first await
sharePdf(f) ==
    /\ IF pdfUri = "null"
       THEN /\ UNCHANGED shareVars
            /\ Ghost("sharePdf", "Sin PDF", "none")
       ELSE /\ shares' = [shares EXCEPT ![f] = [pc |-> "checking", uri |-> pdfUri]]
            /\ UNCHANGED isSharing
            /\ Ghost("sharePdf", "none", "none")
    /\ UNCHANGED shareFrame

\* disabled={!pdfUri || isSharing}
shareDisabled == pdfUri = "null" \/ isSharing

\* a press on the share button
PressShare ==
    /\ variant = "file"
    /\ IF shareDisabled
       THEN /\ UNCHANGED <<shareVars, shareFrame>>
            /\ Ghost("shareIgnored", "none", "none")
       ELSE \E f \in ShareSlots : FreeShare(f) /\ sharePdf(f)

\* an availability answer that is shown but not obeyed
AvailabilityResolvedSharing(f, available) ==
    /\ shares[f].pc = "checking"
    /\ isSharing' = TRUE
    /\ shares' = [shares EXCEPT ![f].pc = "sharing"]
    /\ IF available
       THEN Ghost("shareAsync", "none", "none")
       ELSE Ghost("shareUnavailable", "No disponible", "none")
    /\ UNCHANGED shareFrame

\* Sharing.isAvailableAsync() resolved
AvailabilityResolved(f, available) ==
    /\ shares[f].pc = "checking"
    /\ IF available
       THEN /\ isSharing' = TRUE
            /\ shares' = [shares EXCEPT ![f].pc = "sharing"]
            /\ Ghost("shareAsync", "none", "none")
       ELSE /\ shares' = [shares EXCEPT ![f] = IdleShare]
            /\ UNCHANGED isSharing
            /\ Ghost("shareUnavailable", "No disponible", "none")
    /\ UNCHANGED shareFrame

\* Sharing.isAvailableAsync() rejected: outside the try, nothing catches it
AvailabilityRejected(f) ==
    /\ shares[f].pc = "checking"
    /\ shares' = [shares EXCEPT ![f] = IdleShare]
    /\ UNCHANGED <<isSharing, shareFrame>>
    /\ Ghost("availabilityRejected", "none", "sharePdf")

\* Sharing.shareAsync() resolved: finally runs
ShareResolved(f) ==
    /\ shares[f].pc = "sharing"
    /\ shares' = [shares EXCEPT ![f] = IdleShare]
    /\ isSharing' = FALSE
    /\ UNCHANGED shareFrame
    /\ Ghost("shareResolved", "none", "none")

\* Sharing.shareAsync() rejected: try/finally has no catch, the rejection leaves
\* sharePdf
ShareRejected(f) ==
    /\ shares[f].pc = "sharing"
    /\ shares' = [shares EXCEPT ![f] = IdleShare]
    /\ isSharing' = FALSE
    /\ UNCHANGED shareFrame
    /\ Ghost("shareRejected", "none", "sharePdf")

AvailabilityAnswer ==
    \E f \in ShareSlots : \E available \in BOOLEAN : AvailabilityResolved(f, available)
AvailabilityFailure == \E f \in ShareSlots : AvailabilityRejected(f)
ShareAnswer == \E f \in ShareSlots : ShareResolved(f)
ShareFailure == \E f \in ShareSlots : ShareRejected(f)

----------------------------------------------------------------------------
(* State after mount *)

InitScreen ==
    /\ variant \in {"file", "print"}
    /\ paperSize = "A4"
    /\ orientation = "portrait"
    /\ marginMm = 10
    /\ images = <<>>
    /\ isConverting = FALSE
    /\ pdfUri = "null"
    /\ isSharing = FALSE
    /\ picks = NoPicks
    /\ exports = [f \in ExportSlots |-> IdleExport]
    /\ shares = [f \in ShareSlots |-> IdleShare]
    /\ lastOp = "mount"
    /\ alert = "none"
    /\ fault = "none"
    /\ lastPicked = <<>>
    /\ prevImages = <<>>
    /\ repeated = FALSE

\* images an earlier pick may have left on the screen
ScreenImages ==
    { [uri |-> Uri_a, width |-> 800, height |-> 600, mimeType |-> NULL],
      [uri |-> Uri_b, width |-> 640, height |-> 480,
       mimeType |-> Some(<<"t", "e", "x", "t", "/", "x">>)],
      [uri |-> Uri_c, width |-> 0, height |-> 0,
       mimeType |-> Some(Str_image_slash \o Str_heic)] }

ScreenSequences == {s \in SeqsUpTo(ScreenImages, MaxPages) : NoDuplicateUris(s)}

\* the screen with some images picked
InitPicked ==
    /\ variant \in {"file", "print"}
    /\ paperSize = "A4"
    /\ orientation \in Orientations
    /\ marginMm = 10
    /\ images \in ScreenSequences
    /\ isConverting = FALSE
    /\ pdfUri = "null"
    /\ isSharing = FALSE
    /\ picks = NoPicks
    /\ exports = [f \in ExportSlots |-> IdleExport]
    /\ shares = [f \in ShareSlots |-> IdleShare]
    /\ lastOp = "mount"
    /\ alert = "none"
    /\ fault = "none"
    /\ lastPicked = <<>>
    /\ prevImages = <<>>
    /\ repeated = FALSE

----------------------------------------------------------------------------
(* The page-geometry controls *)

NextGeometry ==
    \/ SelectPaperSize
    \/ SelectOrientation
    \/ marginMinus
    \/ marginPlus
    \/ TypeMargin

SpecGeometry == InitScreen /\ [][NextGeometry]_vars

(* Image intake and the ordering store *)

NextStore ==
    \/ pickImages
    \/ PermissionGranted
    \/ PermissionDenied
    \/ PermissionRejected
    \/ PickerCanceled
    \/ PickerRejected
    \/ AnswerAssets
    \/ PressRemove
    \/ DragEnd

SpecStore == InitScreen /\ [][NextStore]_vars

(* Export and share, driven through the buttons *)

Next ==
    \/ PressExport
    \/ ReadAnswer
    \/ ReadFailure
    \/ PrintAnswer
    \/ PrintFailure
    \/ PressRemove
    \/ DragEnd

Spec == InitPicked /\ [][Next]_vars

(* Export and share of a single page, driven through the buttons *)

InitSinglePage == InitPicked /\ Len(images) <= 1

NextShare ==
    \/ PressExport
    \/ ReadAnswer
    \/ ReadFailure
    \/ PrintAnswer
    \/ PrintFailure
    \/ PressShare
    \/ AvailabilityAnswer
    \/ AvailabilityFailure
    \/ ShareAnswer
    \/ ShareFailure

SpecShare == InitSinglePage /\ [][NextShare]_vars

(* The export handler called directly *)

NextHandler ==
    \/ CallExport
    \/ ReadAnswer
    \/ ReadFailure
    \/ PrintAnswer
    \/ PrintFailure

SpecHandler == InitPicked /\ [][NextHandler]_vars

----------------------------------------------------------------------------
(* Properties of the page-geometry controls *)

\* C1: in every reachable state the stored margin lies in
\* [0, floor(min(widthMm, heightMm)/2 - 1)] of the selected paper and orientation.
C1_MarginWithinMax == 0 <= marginMm /\ marginMm <= maxMarginMm

\* the same bound on the screen that carries the clamp effect
MarginWithinMaxOnFileScreen == variant = "file" => C1_MarginWithinMax

----------------------------------------------------------------------------
(* Properties of image intake and of the ordering store *)

\* C2: a merge into a sequence of pairwise distinct uris leaves no two
\* descriptors with the same uri, whatever the picker returned.
C2_MergeKeepsUrisDistinct ==
    (lastOp = "merge" /\ NoDuplicateUris(prevImages)) => NoDuplicateUris(images)

\* C3: with pick flows in flight together and merges interleaved with removes
\* and reorders, a step never introduces a second descriptor of a uri, as long
\* as the picker result it merges is free of repeated uris.
C3_ConcurrentMergesKeepUrisDistinct ==
    [][(NoDuplicateUris(images) /\ (lastOp' = "merge" => NoDuplicateUris(lastPicked')))
          => NoDuplicateUris(images')]_vars

\* two pickers were open together, both returned the same repeat-free result,
\* and the second merge discarded all of it against the store of that moment
C3_Witness ==
    /\ repeated
    /\ lastPicked # <<>>
    /\ NoDuplicateUris(lastPicked)
    /\ images = prevImages
    /\ NoDuplicateUris(images)

\* indices of the picked assets whose uri the existing sequence lacks
Survivors(existing, picked) ==
    {i \in DOMAIN picked : \A k \in DOMAIN existing : existing[k].uri # picked[i].uri}

\* C4: the merged sequence is the existing one, unchanged, followed by exactly
\* the picked assets with a uri absent from it, in their picker order.
C4_MergeAppendsSurvivorsInOrder ==
    lastOp = "merge" =>
        LET surv == Survivors(prevImages, lastPicked)
            place(i) == Len(prevImages) + Cardinality({j \in surv : j <= i})
        IN  /\ Len(images) = Len(prevImages) + Cardinality(surv)
            /\ \A k \in DOMAIN prevImages : images[k] = prevImages[k]
            /\ \A i \in surv :
                  /\ images[place(i)].uri = lastPicked[i].uri
                  /\ images[place(i)].mimeType = lastPicked[i].mimeType
                  /\ ~IsNull(lastPicked[i].width) =>
                        images[place(i)].width = lastPicked[i].width[1]
                  /\ ~IsNull(lastPicked[i].height) =>
                        images[place(i)].height = lastPicked[i].height[1]

\* a merge onto a non-empty sequence that kept one picked asset, dropped
\* another and met a known uri with other metadata
C4_Witness ==
    /\ lastOp = "merge"
    /\ prevImages # <<>>
    /\ Len(images) > Len(prevImages)
    /\ Len(images) < Len(prevImages) + Len(lastPicked)
    /\ \E i \in DOMAIN lastPicked : \E k \in DOMAIN prevImages :
          /\ lastPicked[i].uri = prevImages[k].uri
          /\ lastPicked[i].mimeType # prevImages[k].mimeType

\* C5: merging the same picker result a second time leaves the set of uris as
\* it was after the first merge, and no uri appears twice in the result.
C5_MergeIdempotent ==
    repeated => /\ UrisOf(images) = UrisOf(prevImages)
                /\ NoDuplicateUris(images)

----------------------------------------------------------------------------
(* Properties of export and share *)

InFlightExports == {f \in ExportSlots : InFlight(f)}

\* C6: an export request made while the image sequence is empty shows the
\* empty-selection notice and changes nothing: the in-progress flag is not set,
\* no read and no print call is issued, sequence, geometry and artifact handle
\* stay as they were.
C6_EmptyRequestOnlyShowsNotice ==
    [][(images = <<>> /\ lastOp' = "convertToPdf")
          => /\ alert' = "Sin imagenes"
             /\ UNCHANGED <<images, geometryVars, isConverting, pdfUri, exports>>]_vars

\* the handler has run on the empty sequence
C6_Witness ==
    /\ lastOp = "convertToPdf"
    /\ images = <<>>
    /\ alert = "Sin imagenes"
    /\ ~isConverting
    /\ InFlightExports = {}

\* C7: at most one export is in flight, and an export request that arrives
\* while one is in flight starts nothing: no read, no print call, no queued call.
C7_OneExportAtATime ==
    /\ [](Cardinality(InFlightExports) <= 1)
    /\ [][(InFlightExports # {} /\ lastOp' \in {"exportIgnored", "convertToPdf"})
             => UNCHANGED <<isConverting, pdfUri, exports>>]_vars

\* the button was pressed during an export and the press was ignored
C7_Witness ==
    /\ lastOp = "exportIgnored"
    /\ images # <<>>
    /\ isConverting
    /\ Cardinality(InFlightExports) = 1

\* C8: whatever the order in which the reads finish, the markup handed to the
\* print service has one page per image of the exported sequence, and page i
\* carries the data URI of image i.
C8_PagesFollowSequenceOrder ==
    \A f \in ExportSlots :
        exports[f].pc = "printing" =>
            LET flow == exports[f]
                pages == flow.html[1].pages
            IN  /\ Len(pages) = Len(flow.images)
                /\ \A i \in DOMAIN flow.images :
                      pages[i].src =
                          escapeAttribute(
                              dataUri(flow.images[i], FileBase64(flow.images[i].uri)))

\* the sequence C, A, B is being printed after its reads finished in another
\* order than the pages'
C8_Witness ==
    \E f \in ExportSlots :
        /\ exports[f].pc = "printing"
        /\ Len(exports[f].images) = 3
        /\ exports[f].images[1].uri = Uri_c
        /\ exports[f].images[2].uri = Uri_a
        /\ exports[f].images[3].uri = Uri_b
        /\ exports[f].done = <<2, 3, 1>>
        /\ lastOp = "readResolved"

\* C9: no failure of a collaborator leaves pickImages, convertToPdf /
\* generatePdf or sharePdf as an uncaught fault.
C9_NoUncaughtFault == fault = "none"

\* C10: a failed export shows the error notice and leaves the artifact handle
\* as it was when the export started; only a print call that returned
\* successfully writes the handle.
C10_FailedExportKeepsArtifact ==
    /\ [](\A f \in ExportSlots :
             exports[f].pc = "failed" => pdfUri = exports[f].startPdfUri)
    /\ [](lastOp \in {"readRejected", "printRejected"}
             => /\ alert = "Error"
                /\ \E f \in ExportSlots : exports[f].pc = "failed")
    /\ [][pdfUri' # pdfUri => lastOp' = "printResolved"]_vars

\* an export failed at the print call after an earlier one had produced a file
C10_Witness ==
    /\ lastOp = "printRejected"
    /\ alert = "Error"
    /\ pdfUri # "null"
    /\ \E f \in ExportSlots :
          exports[f].pc = "failed" /\ exports[f].startPdfUri = pdfUri

----------------------------------------------------------------------------
(* The reorder handler called with any list *)

\* lists a drag-and-drop layer could hand to onDragEnd, permutations or not
DragLists == SeqsUpTo(ScreenImages, MaxPages)

DragEndAny == \E data \in DragLists : onDragEnd(data)

NextReorder ==
    \/ DragEndAny
    \/ PressRemove

SpecReorder == InitPicked /\ [][NextReorder]_vars

\* C11: a reorder replaces the sequence with newOrder when newOrder is a
\* permutation of the current sequence, and otherwise leaves the sequence in
\* its prior order and membership.
C11_ReorderAcceptsOnlyPermutations ==
    [][\A data \in DragLists :
          onDragEnd(data) =>
              images' = (IF data \in Reorderings(images) THEN data ELSE images)]_vars

----------------------------------------------------------------------------
(* A denied permission ends the pick flow *)

\* C12: when the permission is denied the flow stops there: it is shown the
\* permission notice, opens no picker and leaves the sequence alone; a picker
\* opens only from a granted answer, and a permission request is only ever
\* started by pressing the pick button.
C12_DeniedPermissionStopsPick ==
    [][/\ lastOp' = "permissionDenied" =>
              /\ alert' = "Permiso requerido"
              /\ images' = images
              /\ picks'.picker = picks.picker
              /\ picks'.permission = picks.permission - 1
       /\ picks'.picker > picks.picker => lastOp' = "launchImageLibrary"
       /\ picks'.permission > picks.permission => lastOp' = "pickImages"]_vars

C12_Witness ==
    /\ lastOp = "permissionDenied"
    /\ alert = "Permiso requerido"
    /\ images # <<>>

----------------------------------------------------------------------------
(* The share handler called directly *)

CallShare ==
    /\ variant = "file"
    /\ \E f \in ShareSlots : FreeShare(f) /\ sharePdf(f)

NextShareHandler ==
    \/ PressExport
    \/ ReadAnswer
    \/ ReadFailure
    \/ PrintAnswer
    \/ PrintFailure
    \/ CallShare
    \/ AvailabilityAnswer
    \/ AvailabilityFailure
    \/ ShareAnswer
    \/ ShareFailure

SpecShareHandler == InitSinglePage /\ [][NextShareHandler]_vars

\* C13: a share request reaches Sharing.shareAsync only from its own
\* availability check answering available, and it carries an existing PDF;
\* isSharing is raised by that step alone.  A request made with no PDF shows
\* "Sin PDF", an unavailable answer shows "No disponible", and neither issues a
\* share call or touches isSharing.
C13_ShareOnlyWhenArtifactAndAvailable ==
    [][/\ \A f \in ShareSlots :
              (shares'[f].pc = "sharing" /\ shares[f].pc # "sharing") =>
                  /\ lastOp' = "shareAsync"
                  /\ shares[f].pc = "checking"
                  /\ shares[f].uri # "null"
                  /\ shares'[f].uri = shares[f].uri
       /\ (isSharing' /\ ~isSharing) => lastOp' = "shareAsync"
       /\ (lastOp' = "sharePdf" /\ pdfUri = "null") =>
              /\ alert' = "Sin PDF"
              /\ shares' = shares
              /\ isSharing' = isSharing
       /\ lastOp' = "shareUnavailable" =>
              /\ alert' = "No disponible"
              /\ isSharing' = isSharing
              /\ \A f \in ShareSlots :
                     shares'[f].pc = "sharing" => shares[f].pc = "sharing"]_vars

C13_Witness ==
    /\ lastOp = "shareUnavailable"
    /\ alert = "No disponible"
    /\ pdfUri # "null"
    /\ ~isSharing

----------------------------------------------------------------------------
(* MIME inference, exercised through the export of one image *)

Uri_photo      == <<"p", "h", "o", "t", "o", ".", "P", "N", "G">>
Uri_query      == <<"i", "m", "g", "?", "x", "=", "1", ".", "w", "e", "b", "p">>
Uri_webp_query == <<"i", "m", "g", ".", "w", "e", "b", "p", "?", "x", "=", "1">>
Uri_gif        == <<"a", ".", "g", "i", "f">>
Uri_heif       == <<"a", ".", "b", ".", "H", "e", "i", "f">>
Uri_heic       == <<"a", ".", "h", "e", "i", "c">>
Uri_plain      == <<"i", "m", "g">>
Uri_dot        == <<"i", "m", "g", ".">>

MimeUris ==
    {Uri_photo, Uri_query, Uri_webp_query, Uri_gif, Uri_heif, Uri_heic, Uri_plain, Uri_dot}

\* asset.mimeType ?? null
MimeTypes ==
    { NULL,
      Some(Str_image_slash \o Str_heic),
      Some(<<"t", "e", "x", "t", "/", "x">>),
      Some(<<"I", "M", "A", "G", "E", "/", "g", "i", "f">>) }

MimeImages ==
    { [uri |-> u, width |-> 0, height |-> 0, mimeType |-> m] : u \in MimeUris, m \in MimeTypes }

InitMime ==
    /\ variant \in {"file", "print"}
    /\ paperSize = "A4"
    /\ orientation = "portrait"
    /\ marginMm = 10
    /\ \E image \in MimeImages : images = <<image>>
    /\ isConverting = FALSE
    /\ pdfUri = "null"
    /\ isSharing = FALSE
    /\ picks = NoPicks
    /\ exports = [f \in ExportSlots |-> IdleExport]
    /\ shares = [f \in ShareSlots |-> IdleShare]
    /\ lastOp = "mount"
    /\ alert = "none"
    /\ fault = "none"
    /\ lastPicked = <<>>
    /\ prevImages = <<>>
    /\ repeated = FALSE

NextExport ==
    \/ PressExport
    \/ ReadAnswer
    \/ ReadFailure
    \/ PrintAnswer
    \/ PrintFailure

SpecMime == InitMime /\ [][NextExport]_vars

\* the data URI of a read image whose inferred type is mimeType
DataUriWith(image, mimeType) ==
    Str_data \o mimeType \o Str_base64 \o FileBase64(image.uri)

\* the images of export calls whose file read has resolved, with their data URI
ReadImages ==
    UNION { { <<exports[f].images[i], exports[f].sources[i][1]>> :
                i \in {j \in DOMAIN exports[f].images : ~IsNull(exports[f].sources[j])} } :
            f \in ExportSlots }

IsQueryImage(image) == image.uri = Uri_query /\ IsNull(image.mimeType)

\* C14 as stated: the handle "img?x=1.webp" with no declared MIME type is
\* inferred as image/webp.
C14_QueryHandleIsWebp ==
    \A r \in ReadImages :
        IsQueryImage(r[1]) => r[2] = DataUriWith(r[1], Str_image_slash \o Str_webp)

\* C14 amended: the handle "img?x=1.webp" with no declared MIME type is
\* inferred as image/jpeg, its part before '?' being "img"; the handle
\* "img.webp?x=1" is inferred as image/webp.
C14_QueryHandleIsJpeg ==
    \A r \in ReadImages :
        /\ IsQueryImage(r[1]) => r[2] = DataUriWith(r[1], Str_image_slash \o Str_jpeg)
        /\ (r[1].uri = Uri_webp_query /\ IsNull(r[1].mimeType)) =>
               r[2] = DataUriWith(r[1], Str_image_slash \o Str_webp)

C14_Witness ==
    \E f \in ExportSlots :
        /\ exports[f].pc = "printing"
        /\ IsQueryImage(exports[f].images[1])
        /\ exports[f].html[1].pages[1].src =
               DataUriWith(exports[f].images[1], Str_image_slash \o Str_jpeg)

\* the longest prefix / suffix of s in which c does not occur
PrefixWithout(s, c) ==
    LET prefixes == {SubSeq(s, 1, n) : n \in 0..Len(s)}
    IN  CHOOSE p \in prefixes :
            /\ c \notin Range(p)
            /\ \A q \in prefixes : c \notin Range(q) => Len(q) <= Len(p)

SuffixWithout(s, c) ==
    LET suffixes == {SubSeq(s, n + 1, Len(s)) : n \in 0..Len(s)}
    IN  CHOOSE p \in suffixes :
            /\ c \notin Range(p)
            /\ \A q \in suffixes : c \notin Range(q) => Len(q) <= Len(p)

\* the type the rule of C15 gives a descriptor
RuleMimeType(image) ==
    LET declared == image.mimeType
        extension == toLowerCase(SuffixWithout(PrefixWithout(image.uri, "?"), "."))
    IN  IF /\ declared # NULL
           /\ Len(declared[1]) >= 6
           /\ \A k \in 1..6 : declared[1][k] = Str_image_slash[k]
        THEN declared[1]
        ELSE IF extension = Str_png THEN Str_image_slash \o Str_png
        ELSE IF extension = Str_webp THEN Str_image_slash \o Str_webp
        ELSE IF extension = Str_gif THEN Str_image_slash \o Str_gif
        ELSE IF extension = Str_heic \/ extension = Str_heif THEN Str_image_slash \o Str_heic
        ELSE Str_image_slash \o Str_jpeg

\* C15: the inferred type is the declared type, unchanged, when one is present
\* and starts with "image/"; otherwise it depends only on the lower-cased text
\* after the last '.' of the handle's part before the first '?': png, webp and
\* gif give their own type, heic and heif give image/heic, anything else
\* image/jpeg.
C15_MimeFollowsDeclaredThenExtension ==
    \A r \in ReadImages : r[2] = DataUriWith(r[1], RuleMimeType(r[1]))

C15_Witness ==
    \E f \in ExportSlots :
        /\ exports[f].pc = "printing"
        /\ exports[f].images[1].uri = Uri_photo
        /\ exports[f].images[1].mimeType # NULL
        /\ exports[f].html[1].pages[1].src =
               DataUriWith(exports[f].images[1], Str_image_slash \o Str_png)

----------------------------------------------------------------------------
(* The markup over every page geometry *)

\* two images on the screen, the page geometry anything the controls can leave
\* within the margin range
InitMarkup ==
    /\ variant \in {"file", "print"}
    /\ paperSize \in PaperSizes
    /\ orientation \in Orientations
    /\ marginMm \in {m \in 0..maxMarginMm : variant = "file" \/ m % 2 = 0}
    /\ images \in {s \in ScreenSequences : Len(s) = 2 /\ s[1].uri = Uri_a /\ s[2].uri = Uri_c}
    /\ isConverting = FALSE
    /\ pdfUri = "null"
    /\ isSharing = FALSE
    /\ picks = NoPicks
    /\ exports = [f \in ExportSlots |-> IdleExport]
    /\ shares = [f \in ShareSlots |-> IdleShare]
    /\ lastOp = "mount"
    /\ alert = "none"
    /\ fault = "none"
    /\ lastPicked = <<>>
    /\ prevImages = <<>>
    /\ repeated = FALSE

SpecMarkup == InitMarkup /\ [][NextExport]_vars

\* export calls that have built their markup
Built == {f \in ExportSlots : exports[f].html # NULL}

\* CSS box model: the box a .sheet section leaves inside its padding
SheetContentBox(html) ==
    IF html.sheet.boxSizing = "border-box"
    THEN [width |-> html.sheet.width - 2 * html.sheet.padding,
          height |-> html.sheet.height - 2 * html.sheet.padding]
    ELSE [width |-> html.sheet.width, height |-> html.sheet.height]

\* the region a page's image is laid out in: the .content element where the
\* markup has one, the padded box of the sheet otherwise
ContentRegion(html) ==
    IF html.content # NULL THEN html.content[1] ELSE SheetContentBox(html)

\* C16: for every paper size, orientation and margin in [0, maxMargin] the
\* markup declares one page size widthMm x heightMm with page margin 0, every
\* page section is a box of widthMm x heightMm, and every page's content region
\* is (widthMm - 2 margin) x (heightMm - 2 margin); A4 portrait with margin 10
\* gives 210 x 297 and 190 x 277.
C16_MarkupGeometry ==
    \A f \in Built :
        LET html == exports[f].html[1]
            g == exports[f].geometry[1]
            d == getPageDimensionsMm(g.paperSize, g.orientation)
        IN  (0 <= g.marginMm /\ g.marginMm <= maxMarginOf(d.widthMm, d.heightMm)) =>
                /\ html.pageSize = <<d.widthMm, d.heightMm>>
                /\ html.pageMargin = 0
                /\ \A i \in DOMAIN html.pages :
                       /\ "sheet" \in html.pages[i].class
                       /\ html.sheet.width = d.widthMm
                       /\ html.sheet.height = d.heightMm
                       /\ ContentRegion(html) =
                              [width |-> d.widthMm - 2 * g.marginMm * 10,
                               height |-> d.heightMm - 2 * g.marginMm * 10]
                /\ (g.paperSize = "A4" /\ g.orientation = "portrait" /\ g.marginMm = 10) =>
                       /\ html.pageSize = <<2100, 2970>>
                       /\ ContentRegion(html) = [width |-> 1900, height |-> 2770]

C16_Witness ==
    \E f \in Built :
        /\ exports[f].pc = "printing"
        /\ exports[f].geometry[1] =
               [paperSize |-> "Letter", orientation |-> "landscape", marginMm |-> 106]
        /\ Len(exports[f].html[1].pages) = 2
        /\ ContentRegion(exports[f].html[1]) = [width |-> 674, height |-> 39]

\* CSS cascade: the .sheet.landscape .content img rule applies to page i
LandscapeRuleApplies(html, i) ==
    /\ html.landscapeImg # NULL
    /\ {"sheet", "landscape"} \subseteq html.pages[i].class

\* degrees the image of page i is turned about its centre
Rotation(html, i) ==
    IF LandscapeRuleApplies(html, i) THEN html.landscapeImg[1].rotate ELSE 0

\* the box the image of page i is fitted into
FitBounds(html, i) ==
    IF LandscapeRuleApplies(html, i)
    THEN [width |-> html.landscapeImg[1].maxWidth, height |-> html.landscapeImg[1].maxHeight]
    ELSE ContentRegion(html)

RotationFollowsOrientation(f) ==
    LET html == exports[f].html[1]
        g == exports[f].geometry[1]
        box == ContentRegion(html)
    IN  \A i \in DOMAIN html.pages :
            IF g.orientation = "landscape"
            THEN /\ Rotation(html, i) = 90
                 /\ html.landscapeImg[1].transformOrigin = "center center"
                 /\ FitBounds(html, i) = [width |-> box.height, height |-> box.width]
            ELSE /\ Rotation(html, i) = 0
                 /\ FitBounds(html, i) = box

\* C17: in a landscape document every page's image is turned 90 degrees about
\* its centre and fitted into the content box with width and height swapped; in
\* a portrait document no image is turned and each is fitted into the content
\* box itself.
C17_LandscapeRotatesEveryImage == \A f \in Built : RotationFollowsOrientation(f)

\* the same on the print screen alone
RotationFollowsOrientationOnPrintScreen ==
    variant = "print" => \A f \in Built : RotationFollowsOrientation(f)

----------------------------------------------------------------------------
(* The aspect ratio of the preview canvas *)

\* the ratio as numerator and denominator, in tenths of a millimetre: the file
\* variant divides the content box, the print variant the page
previewAspectRatio ==
    IF variant = "file"
    THEN <<Max(widthMm - marginMm * 10 * 2, 10), Max(heightMm - marginMm * 10 * 2, 10)>>
    ELSE <<widthMm, heightMm>>

\* r and q are the same fraction
SameRatio(r, q) == r[1] * q[2] = r[2] * q[1]

\* C18: the aspect ratio of the preview canvas is widthMm / heightMm for every
\* paper size, orientation and margin, so it does not depend on the margin.
C18_PreviewRatioIsPageRatio == SameRatio(previewAspectRatio, <<widthMm, heightMm>>)

\* the same on the print screen alone
PreviewRatioIsPageRatioOnPrintScreen ==
    variant = "print" => SameRatio(previewAspectRatio, <<widthMm, heightMm>>)

----------------------------------------------------------------------------
(* The screen changing under a pending export *)

MaxNudges == 1   \* presses on - or + counted from the margin the export captured

\* one export per run
FirstExport ==
    /\ \A f \in ExportSlots : exports[f] = IdleExport
    /\ PressExport

\* the margin stays within MaxNudges presses of the captured one
NudgeMargin ==
    /\ \E f \in InFlightExports :
           LET captured == exports[f].geometry[1].marginMm
           IN  /\ marginMm - captured < 2 * MaxNudges
               /\ captured - marginMm < 2 * MaxNudges
    /\ (marginMinus \/ marginPlus)

\* one pick flow at a time
PressPick == picks = NoPicks /\ pickImages

\* the picker answers with the one image the screen does not show yet
AnswerOneMore ==
    \E assets \in {r \in PickerResults : Len(r) = 1 /\ r[1].uri = Uri_b} : PickerDone(assets)

\* what the user does to the screen while an export is pending
ChangeScreen ==
    /\ InFlightExports # {}
    /\ \/ SelectPaperSize
       \/ SelectOrientation
       \/ NudgeMargin
       \/ PressPick
       \/ PermissionGranted
       \/ AnswerOneMore
       \/ PressRemove
       \/ DragEnd

InitPending ==
    /\ InitPicked
    /\ orientation = "portrait"
    /\ Len(images) = 2
    /\ images[1].uri = Uri_c
    /\ images[2].uri = Uri_a

NextPending ==
    \/ FirstExport
    \/ ReadAnswer
    \/ ReadFailure
    \/ PrintAnswer
    \/ PrintFailure
    \/ ChangeScreen

SpecPending == InitPending /\ [][NextPending]_vars

\* the markup of the images and geometry export call f holds, pages in the
\* order of the images
MarkupOf(flow) ==
    buildPdfHtml(variant,
                 [i \in DOMAIN flow.images |->
                     dataUri(flow.images[i], FileBase64(flow.images[i].uri))],
                 flow.geometry[1])

\* C19: an export works on the images and page geometry of the moment it was
\* triggered: it takes them from the screen when it starts, nothing that
\* happens to the screen while its reads or its print call are pending changes
\* them, and the markup handed to the print service is the markup of exactly
\* those images, in that order, with that geometry.
C19_ExportUsesStateAtTrigger ==
    [][\A f \in ExportSlots :
          /\ (~InFlight(f) /\ InFlight(f)') =>
                 /\ exports'[f].images = images
                 /\ exports'[f].geometry = Some(Geometry)
          /\ (InFlight(f) /\ InFlight(f)') =>
                 /\ exports'[f].images = exports[f].images
                 /\ exports'[f].geometry = exports[f].geometry
          /\ (exports[f].pc = "printing" /\ exports'[f].pc = "printing") =>
                 exports'[f].html = exports[f].html
          /\ (exports[f].pc # "printing" /\ exports'[f].pc = "printing") =>
                 exports'[f].html = Some(MarkupOf(exports'[f]))]_vars

\* a print call is pending on a markup of images and of a paper size, an
\* orientation and a margin that the screen no longer shows
C19_Witness ==
    \E f \in ExportSlots :
        /\ exports[f].pc = "printing"
        /\ exports[f].images # images
        /\ Len(exports[f].images) = 2
        /\ exports[f].geometry[1].paperSize # paperSize
        /\ exports[f].geometry[1].orientation # orientation
        /\ exports[f].geometry[1].marginMm # marginMm
        /\ exports[f].html = Some(MarkupOf(exports[f]))

----------------------------------------------------------------------------
(* The PDF handle over a session of the file-export screen *)

\* nothing is awaited: no export, share or pick call is pending
Quiet ==
    /\ InFlightExports = {}
    /\ \A f \in ShareSlots : shares[f].pc = "idle"
    /\ picks = NoPicks

TypeSmallMargin == onChangeText(<<"7">>)

\* convertToPdf called on the empty sequence, which the disabled button never does
RequestOnEmpty == isEmpty(images) /\ CallExport

\* the controls, the list and the export button are touched only while quiet;
\* the share button is pressed at any time
TouchScreen ==
    /\ Quiet
    /\ \/ SelectPaperSize
       \/ SelectOrientation
       \/ TypeSmallMargin
       \/ PressPick
       \/ PressRemove
       \/ RequestOnEmpty
       \/ PressExport

InitSession == InitScreen /\ variant = "file"

NextSession ==
    \/ TouchScreen
    \/ PermissionGranted
    \/ PermissionDenied
    \/ AnswerOneMore
    \/ PickerCanceled
    \/ ReadAnswer
    \/ ReadFailure
    \/ PrintAnswer
    \/ PrintFailure
    \/ PressShare
    \/ AvailabilityAnswer
    \/ ShareAnswer
    \/ ShareFailure

SpecSession == InitSession /\ [][NextSession]_vars

\* C20: pdfUri is empty at mount; it changes only in the step in which a print
\* call resolves, and then to the handle that call returned; every other step
\* (pick, remove, geometry control, failed export, request on the empty
\* sequence, share) leaves it as it is, and it is never emptied again.
C20_ArtifactOnlyFromSuccessfulExport ==
    /\ pdfUri = "null"
    /\ [][/\ pdfUri' # pdfUri =>
                /\ lastOp' = "printResolved"
                /\ \E f \in ExportSlots :
                       exports[f].pc = "printing" /\ exports'[f].pc = "succeeded"
          /\ \A f \in ExportSlots : \A uri \in PdfUris :
                PrintResolved(f, uri) => pdfUri' = uri
          /\ pdfUri # "null" => pdfUri' # "null"
          /\ lastOp' \in {"merge", "pickerEmpty", "removeImage", "setPaperSize",
                          "setOrientation", "onChangeText", "readRejected",
                          "printRejected", "convertToPdf", "sharePdf", "shareAsync",
                          "shareUnavailable", "shareResolved", "shareRejected"}
                => pdfUri' = pdfUri]_vars

\* the last image has just been removed and the PDF made earlier is still held
C20_Witness ==
    /\ lastOp = "removeImage"
    /\ images = <<>>
    /\ pdfUri = "pdf2"

----------------------------------------------------------------------------
(* Exports whose reads and print call always answer *)

\* a pending file read of export call f answers, one way or the other
ReadSettles(f) ==
    \E i \in 1..MaxPages : ReadRejected(f, i) \/ ReadResolved(f, i)

\* the pending print call of export call f answers, one way or the other
PrintSettles(f) ==
    \/ PrintRejected(f)
    \/ \E uri \in PdfUris \cup {"null"} :
           /\ (uri = "null") = (variant = "print")
           /\ PrintResolved(f, uri)

\* the file system and the print service do not leave a call unanswered
AnswersArrive ==
    \A f \in ExportSlots : WF_vars(ReadSettles(f)) /\ WF_vars(PrintSettles(f))

SpecLive == InitPicked /\ [][NextExport]_vars /\ AnswersArrive

\* C21: provided every file read and the print call answer, an export that has
\* set the in-progress flag clears it again, whether it succeeds or a read or
\* the print call fails: the call leaves its pending state and the export
\* button of a screen with images does not stay disabled.
C21_ExportEventuallyLeavesGenerating ==
    /\ isConverting ~> ~isConverting
    /\ \A f \in ExportSlots : InFlight(f) ~> ~InFlight(f)
    /\ (images # <<>> /\ exportDisabled) ~> ~exportDisabled

\* an export has ended on a failed read and the flag is down again
C21_Witness ==
    /\ lastOp = "readRejected"
    /\ ~isConverting
    /\ ~exportDisabled
    /\ \E f \in ExportSlots : exports[f].pc = "failed"

====
